---- MODULE Spec2Model ----
(***************************************************************************)
(* BufferingSMTPHandler (src/smtpbuflog.py): a logging handler that        *)
(* buffers formatted records in a class-level queue _Q, and whose          *)
(* background thread (run) periodically moves them to the instance queue   *)
(* _q and mails them as one batch; close() forces a last cycle on the      *)
(* calling thread.                                                         *)
(*                                                                         *)
(* Time.  Every stored instant (the timestamp _LAST_SEND_TIME, a drain     *)
(* deadline, the end of a sleep) is kept RELATIVE to the current instant:  *)
(* the model stores x - time.time() for the instant x, so that time.time() *)
(* reads 0 and the code's comparisons keep their shape.  The clock is read *)
(* in whole seconds.  Tick lets time pass, one second or Quantum seconds   *)
(* (half a _SEND_INTERVAL) at a time, and may occur between two steps of   *)
(* any thread (a thread may be preempted for any length of time); every    *)
(* stored instant ages by exactly the time that passed.  The 0.25 s of     *)
(* close() is written as one second, so that its drain lasts; the 0.1 s of *)
(* the drain's sleep is below the clock's resolution and written as 0: the *)
(* sleep is over at the same reading of the clock, before the deadline of  *)
(* either drain, as in the code.  A deadline or a sleep that is over is    *)
(* kept as `time`, and a timestamp older than _SEND_INTERVAL as OLDEST     *)
(* (float('-inf') as NEG_INF): no comparison of run() tells older instants *)
(* apart.  The two durations state() reports (lines 27-45) need the true   *)
(* age of the timestamp and are not part of the model; of state() the      *)
(* model has the pending count of line 47.                                 *)
(***************************************************************************)
EXTENDS Integers, Sequences, FiniteSets, TLC

\* ---------------------------------------------------------------- bounds
MaxEmit == 2          \* emit() calls in one behaviour, over all producers
MaxClose == 2         \* close() calls on one instance in one behaviour
MaxSecond == 1        \* one-second steps of the clock in one behaviour

\* ------------------------------------------------------ program constants
POLL_INTERVAL == 5
POLL_DURATION_MAX == 10
SEND_INTERVAL == 2 * 60
CLOSE_POLL_DURATION_MAX == 1   \* 0.25 s in close(), rounded up to a second
DRAIN_SLEEP == 0               \* time.sleep(0.1), in whole seconds

Quantum == SEND_INTERVAL \div 2
OLDEST == 0 - (SEND_INTERVAL + 1)
NEG_INF == OLDEST - Quantum    \* float('-inf')

\* time.time(), in the frame that moves with the clock
time == 0

Producers == {1, 2}            \* threads that log through the handler
HandlerIds == {1, 2}           \* instances of the class that may be constructed
Roles == {"worker", "closer"}
Threads == HandlerIds \X Roles
W(h) == <<h, "worker">>        \* the thread started by __init__, running run()
C(h) == <<h, "closer">>        \* the thread that calls close()
NoThread == <<0, "none">>
NoRec == <<0, 0>>

Min(a, b) == IF a < b THEN a ELSE b
Max(a, b) == IF a > b THEN a ELSE b
Range(s) == {s[i] : i \in 1..Len(s)}

VARIABLES
  handlers,           \* the instances constructed
  Q,                  \* class queue _Q
  LOCK,               \* class lock _LOCK: its holder, or NoThread
  LAST_SEND_TIME,     \* class attribute _LAST_SEND_TIME
  q,                  \* instance queue _q
  active,             \* instance attribute _active
  poll_duration_max,  \* self._POLL_DURATION_MAX, as the instance reads it
  pc,                 \* where each thread is
  deadline,           \* _move_recordset_from_Q_to_q's local deadline
  item,               \* the record between _Q.get_nowait() and _q.put()
  records,            \* _send_records_from_q's local list
  stamp,              \* the value of time.time() about to be stored (line 124)
  wake,               \* the end of the thread's time.sleep()
  emitted,            \* history: records each producer has enqueued
  batches,            \* history: the messages handed to smtp.sendmail
  lost,               \* history: records of batches the transport refused
  prev_send,          \* history: instant of the instance's last dispatch
  prev_worker_send,   \* history: instant of the worker's last dispatch
  at_close,           \* history: contents of _Q when close() was invoked
  before_close,       \* history: records enqueued before close() was invoked
  close_cut,          \* history: close()'s drain was ended by its deadline
  dropped,            \* history: records lost to an interruption
  closes,             \* history: how many times close() was called
  seen,               \* state(): the contents of _Q when line 47 read its size
  seconds             \* history: one-second steps the clock has taken

vars == <<handlers, Q, LOCK, LAST_SEND_TIME, q, active, poll_duration_max, pc,
          deadline, item, records, stamp, wake, emitted, batches, lost,
          prev_send, prev_worker_send, at_close, before_close, close_cut,
          dropped, closes, seen, seconds>>

\* What no step of run() or of a cycle touches: the instances constructed,
\* what the env of close() and state() hold, the records an interruption
\* cost, and the count of the clock's short steps.
env == <<handlers, closes, seen, dropped, seconds>>

\* state() is not running: no qsize() of line 47 has been read.
NotReading == <<NoRec>>

prog == <<Q, LOCK, LAST_SEND_TIME, q, active, poll_duration_max>>
locals == <<deadline, item, records, stamp, wake>>
hist == <<emitted, batches, lost, prev_send, prev_worker_send, at_close,
          before_close, close_cut>>

\* ------------------------------------------------------------------ Init
\* Lines 19-21 (class body) and __init__ for every constructed instance: the
\* worker thread is started and stands before its first loop test.
InitWith(hs) ==
  /\ handlers = hs
  /\ Q = <<>>
  /\ LOCK = NoThread
  /\ LAST_SEND_TIME = NEG_INF
  /\ q = [h \in HandlerIds |-> <<>>]
  /\ active = [h \in HandlerIds |-> h \in hs]
  /\ poll_duration_max = [h \in HandlerIds |-> POLL_DURATION_MAX]
  /\ pc = [t \in Threads |->
             IF t[1] \notin hs THEN "none"
             ELSE IF t[2] = "worker" THEN "loop" ELSE "idle"]
  /\ deadline = [t \in Threads |-> 0]
  /\ item = [t \in Threads |-> NoRec]
  /\ records = [t \in Threads |-> <<>>]
  /\ stamp = [t \in Threads |-> 0]
  /\ wake = [t \in Threads |-> 0]
  /\ emitted = [p \in Producers |-> 0]
  /\ batches = <<>>
  /\ lost = {}
  /\ prev_send = [h \in HandlerIds |-> NEG_INF]
  /\ prev_worker_send = [h \in HandlerIds |-> NEG_INF]
  /\ at_close = [h \in HandlerIds |-> {}]
  /\ before_close = [h \in HandlerIds |-> {}]
  /\ close_cut = [h \in HandlerIds |-> FALSE]
  /\ closes = [h \in HandlerIds |-> 0]
  /\ seen = [h \in HandlerIds |-> NotReading]
  /\ dropped = {}
  /\ seconds = 0

Init == InitWith({1})

\* ------------------------------------------------------------------ time
\* The spacing of two dispatches that the specification promises.
SPACING == SEND_INTERVAL - POLL_INTERVAL

\* The instant x, d seconds later; instants at or before `floor` are alike.
Later(x, d, floor) ==
  IF x = NEG_INF THEN NEG_INF ELSE Max(x - d, floor)

\* time.sleep() until the instant w is over.
Awake(w) == w <= time

\* d seconds pass.
Pass(d) ==
  /\ LAST_SEND_TIME' = Later(LAST_SEND_TIME, d, OLDEST)
  /\ deadline' = [t \in Threads |-> Later(deadline[t], d, time)]
  /\ wake' = [t \in Threads |-> Later(wake[t], d, time)]
  /\ stamp' = [t \in Threads |->
                 IF pc[t] = "store" THEN Later(stamp[t], d, OLDEST) ELSE stamp[t]]
  /\ prev_send' = [h \in HandlerIds |-> Later(prev_send[h], d, 0 - SPACING)]
  /\ prev_worker_send' =
       [h \in HandlerIds |-> Later(prev_worker_send[h], d, 0 - SEND_INTERVAL)]
  /\ UNCHANGED <<handlers, closes, seen, dropped, Q, LOCK, q, active,
                 poll_duration_max, pc, item, records, emitted, batches, lost,
                 at_close, before_close, close_cut>>

\* One second passes.
TickSecond ==
  /\ seconds < MaxSecond
  /\ seconds' = seconds + 1
  /\ Pass(1)

\* Quantum seconds pass.
TickQuantum ==
  /\ UNCHANGED seconds
  /\ Pass(Quantum)

\* Time passes between two steps of the threads.
Tick ==
  \/ TickSecond
  \/ TickQuantum

\* ------------------------------------------------------------------ emit
Emitted == {r \in Producers \X (1..MaxEmit) : r[2] <= emitted[r[1]]}
EmitCount == emitted[1] + emitted[2]

\* Mutant of emit: the record is enqueued under the scheduler lock.
emit_locked(p) ==
  /\ EmitCount < MaxEmit
  /\ LOCK = NoThread
  /\ emitted' = [emitted EXCEPT ![p] = @ + 1]
  /\ Q' = Append(Q, <<p, emitted[p] + 1>>)
  /\ UNCHANGED <<env, LOCK, LAST_SEND_TIME, q, active, poll_duration_max,
                 pc, locals, batches, lost, prev_send, prev_worker_send,
                 at_close, before_close, close_cut>>

\* Mutant of emit: a handler that has been closed refuses the record.
emit_while_active(p) ==
  /\ EmitCount < MaxEmit
  /\ \A h \in handlers : active[h]
  /\ emitted' = [emitted EXCEPT ![p] = @ + 1]
  /\ Q' = Append(Q, <<p, emitted[p] + 1>>)
  /\ UNCHANGED <<env, LOCK, LAST_SEND_TIME, q, active, poll_duration_max,
                 pc, locals, batches, lost, prev_send, prev_worker_send,
                 at_close, before_close, close_cut>>

\* emit (lines 96-101): self._Q.put(self.format(record)); record n of producer p
\* is the pair <<p, n>>.
emit(p) ==
  /\ EmitCount < MaxEmit
  /\ emitted' = [emitted EXCEPT ![p] = @ + 1]
  /\ Q' = Append(Q, <<p, emitted[p] + 1>>)
  /\ UNCHANGED <<env, LOCK, LAST_SEND_TIME, q, active, poll_duration_max,
                 pc, locals, batches, lost, prev_send, prev_worker_send,
                 at_close, before_close, close_cut>>

\* ----------------------------------------------------------------- close
\* close (lines 86-94) up to the call of _process_recordset.
\* close() is a public method and can be called again once an earlier call
\* has returned or raised (logging.shutdown() calls it on every handler): each
\* call runs a cycle.
close(h) ==
  /\ pc[C(h)] \in {"idle", "closed", "raised"}
  /\ closes[h] < MaxClose
  /\ closes' = [closes EXCEPT ![h] = @ + 1]
  /\ active' = [active EXCEPT ![h] = FALSE]
  /\ poll_duration_max' =
       [poll_duration_max EXCEPT ![h] = Min(CLOSE_POLL_DURATION_MAX, @)]
  /\ pc' = [pc EXCEPT ![C(h)] = "process_enter"]
  /\ at_close' = [at_close EXCEPT ![h] = Range(Q)]
  /\ before_close' = [before_close EXCEPT ![h] = Emitted]
  /\ close_cut' = [close_cut EXCEPT ![h] = FALSE]
  /\ UNCHANGED <<handlers, seen, dropped, seconds, Q, LOCK, LAST_SEND_TIME, q,
                 deadline, item, records, stamp, wake, emitted, batches, lost,
                 prev_send, prev_worker_send>>

\* The first call of close() on the instance, and a further call (for
\* instance by logging.shutdown() at interpreter exit).
NotClosed(h) == closes[h] = 0
close_first(h) == NotClosed(h) /\ close(h)
close_again(h) == ~NotClosed(h) /\ close(h)

\* close returns once its _process_recordset has returned.
close_return(h) ==
  /\ pc[C(h)] = "return"
  /\ pc' = [pc EXCEPT ![C(h)] = "closed"]
  /\ UNCHANGED <<env, prog, locals, hist>>

\* ------------------------------------------------------------------- run
\* line 106: while self._active, the first time
run_loop(h) ==
  /\ pc[W(h)] = "loop"
  /\ pc' = [pc EXCEPT ![W(h)] = IF active[h] THEN "acquire" ELSE "done"]
  /\ UNCHANGED <<env, prog, locals, hist>>

\* line 107: with self._LOCK (blocks while another thread holds the lock)
run_acquire(h) ==
  /\ pc[W(h)] = "acquire"
  /\ LOCK = NoThread
  /\ LOCK' = W(h)
  /\ pc' = [pc EXCEPT ![W(h)] = "check"]
  /\ UNCHANGED <<env, Q, LAST_SEND_TIME, q, active, poll_duration_max,
                 locals, hist>>

\* Mutant of SendDue: the interval is left out of next_send_time.
SendDue_no_interval == time > LAST_SEND_TIME

\* line 109: time.time() > next_send_time, with line 108's
\* next_send_time = self._LAST_SEND_TIME + self._SEND_INTERVAL
SendDue == time > LAST_SEND_TIME + SEND_INTERVAL

\* lines 108-115: a send is due and _process_recordset is called, or the lock
\* is released and the thread sleeps to next_send_time.
run_check(h) ==
  /\ pc[W(h)] = "check"
  /\ LET next_send_time == LAST_SEND_TIME + SEND_INTERVAL
         sleep_time == Max(next_send_time - time, 0)
     IN IF SendDue
        THEN /\ pc' = [pc EXCEPT ![W(h)] = "process_enter"]
             /\ UNCHANGED <<LOCK, wake>>
        ELSE /\ pc' = [pc EXCEPT ![W(h)] = "sleep"]
             /\ LOCK' = NoThread
             /\ wake' = [wake EXCEPT ![W(h)] = time + sleep_time]
  /\ UNCHANGED <<env, Q, LAST_SEND_TIME, q, active, poll_duration_max,
                 deadline, item, records, stamp, hist>>

\* lines 111, 115: after the cycle, sleep_time = _POLL_INTERVAL; the lock is
\* released and the thread sleeps.
run_poll(h) ==
  /\ pc[W(h)] = "return"
  /\ LOCK' = NoThread
  /\ wake' = [wake EXCEPT ![W(h)] = time + POLL_INTERVAL]
  /\ pc' = [pc EXCEPT ![W(h)] = "sleep"]
  /\ UNCHANGED <<env, Q, LAST_SEND_TIME, q, active, poll_duration_max,
                 deadline, item, records, stamp, hist>>

\* Mutant of run_wake: the loop goes round again without testing _active.
run_wake_forever(h) ==
  /\ pc[W(h)] = "sleep"
  /\ Awake(wake[W(h)])
  /\ pc' = [pc EXCEPT ![W(h)] = "acquire"]
  /\ UNCHANGED <<env, prog, locals, hist>>

\* lines 115, 106: time.sleep(sleep_time) is over, and the loop tests
\* self._active again
run_wake(h) ==
  /\ pc[W(h)] = "sleep"
  /\ Awake(wake[W(h)])
  /\ pc' = [pc EXCEPT ![W(h)] = IF active[h] THEN "acquire" ELSE "done"]
  /\ UNCHANGED <<env, prog, locals, hist>>

\* ------------------------------------------------- _move_recordset_from_Q_to_q
\* Mutant of drain_poll: the head of _Q is read but not removed.
drain_poll_peek(t) ==
  /\ pc[t] = "drain_test" \/ (pc[t] = "drain_sleep" /\ Awake(wake[t]))
  /\ IF time < deadline[t]
     THEN IF Q # <<>>
          THEN /\ item' = [item EXCEPT ![t] = Head(Q)]
               /\ pc' = [pc EXCEPT ![t] = "drain_put"]
               /\ UNCHANGED <<Q, close_cut>>
          ELSE /\ pc' = [pc EXCEPT ![t] = "drain_empty"]
               /\ UNCHANGED <<item, Q, close_cut>>
     ELSE /\ pc' = [pc EXCEPT ![t] = "process_check"]
          /\ close_cut' = IF t[2] = "closer"
                          THEN [close_cut EXCEPT ![t[1]] = TRUE]
                          ELSE close_cut
          /\ UNCHANGED <<item, Q>>
  /\ UNCHANGED <<env, LOCK, LAST_SEND_TIME, q, active, poll_duration_max,
                 deadline, records, stamp, wake, emitted, batches, lost,
                 prev_send, prev_worker_send, at_close, before_close>>

\* lines 132-134 (and 139, the end of time.sleep(0.1)): while
\* time.time() < deadline, self._Q.get_nowait() gives the head of _Q or raises
\* Queue.Empty; past the deadline the drain is over.
drain_poll(t) ==
  /\ pc[t] = "drain_test" \/ (pc[t] = "drain_sleep" /\ Awake(wake[t]))
  /\ IF time < deadline[t]
     THEN IF Q # <<>>
          THEN /\ item' = [item EXCEPT ![t] = Head(Q)]
               /\ Q' = Tail(Q)
               /\ pc' = [pc EXCEPT ![t] = "drain_put"]
               /\ UNCHANGED close_cut
          ELSE /\ pc' = [pc EXCEPT ![t] = "drain_empty"]
               /\ UNCHANGED <<item, Q, close_cut>>
     ELSE /\ pc' = [pc EXCEPT ![t] = "process_check"]
          /\ close_cut' = IF t[2] = "closer"
                          THEN [close_cut EXCEPT ![t[1]] = TRUE]
                          ELSE close_cut
          /\ UNCHANGED <<item, Q>>
  /\ UNCHANGED <<env, LOCK, LAST_SEND_TIME, q, active, poll_duration_max,
                 deadline, records, stamp, wake, emitted, batches, lost,
                 prev_send, prev_worker_send, at_close, before_close>>

\* Mutant of drain_put: the loop is left after the first record is moved.
drain_put_once(t) ==
  /\ pc[t] = "drain_put"
  /\ q' = [q EXCEPT ![t[1]] = Append(@, item[t])]
  /\ item' = [item EXCEPT ![t] = NoRec]
  /\ pc' = [pc EXCEPT ![t] = "process_check"]
  /\ UNCHANGED <<env, Q, LOCK, LAST_SEND_TIME, active, poll_duration_max,
                 deadline, records, stamp, wake, hist>>

\* Mutant of drain_put: the record popped from _Q is not put into _q.
drain_put_drop(t) ==
  /\ pc[t] = "drain_put"
  /\ item' = [item EXCEPT ![t] = NoRec]
  /\ pc' = [pc EXCEPT ![t] = "drain_test"]
  /\ UNCHANGED <<env, prog, deadline, records, stamp, wake, hist>>

\* lines 134-135, self._q.put(...): the record enters the instance queue
drain_put(t) ==
  /\ pc[t] = "drain_put"
  /\ q' = [q EXCEPT ![t[1]] = Append(@, item[t])]
  /\ item' = [item EXCEPT ![t] = NoRec]
  /\ pc' = [pc EXCEPT ![t] = "drain_test"]
  /\ UNCHANGED <<env, Q, LOCK, LAST_SEND_TIME, active, poll_duration_max,
                 deadline, records, stamp, wake, hist>>

\* Mutant of drain_empty: the test of line 137 is inverted, the drain stops as
\* soon as a batch is staged and polls on while nothing is.
drain_empty_swapped(t) ==
  /\ pc[t] = "drain_empty"
  /\ IF q[t[1]] # <<>>
     THEN /\ pc' = [pc EXCEPT ![t] = "process_check"]
          /\ UNCHANGED wake
     ELSE /\ pc' = [pc EXCEPT ![t] = "drain_sleep"]
          /\ wake' = [wake EXCEPT ![t] = time + DRAIN_SLEEP]
  /\ UNCHANGED <<env, prog, deadline, item, records, stamp, hist>>

\* lines 136-139: on Queue.Empty, break if _q is empty, else time.sleep(0.1)
drain_empty(t) ==
  /\ pc[t] = "drain_empty"
  /\ IF q[t[1]] = <<>>
     THEN /\ pc' = [pc EXCEPT ![t] = "process_check"]
          /\ UNCHANGED wake
     ELSE /\ pc' = [pc EXCEPT ![t] = "drain_sleep"]
          /\ wake' = [wake EXCEPT ![t] = time + DRAIN_SLEEP]
  /\ UNCHANGED <<env, prog, deadline, item, records, stamp, hist>>

\* ------------------------------------------------------------ _process_recordset
\* lines 117-121 and 131: _process_recordset is entered, its try block is set
\* up, and the drain it calls starts with
\* deadline = time.time() + self._POLL_DURATION_MAX.
process_enter(t) ==
  /\ pc[t] = "process_enter"
  /\ deadline' = [deadline EXCEPT ![t] = time + poll_duration_max[t[1]]]
  /\ pc' = [pc EXCEPT ![t] = "drain_test"]
  /\ UNCHANGED <<env, prog, item, records, stamp, wake, hist>>

\* Mutant of process_check: _send_records_from_q and the timestamp update run
\* whether or not _q holds a record.
process_check_always(t) ==
  /\ pc[t] = "process_check"
  /\ pc' = [pc EXCEPT ![t] = "send_get"]
  /\ records' = [records EXCEPT ![t] = <<>>]
  /\ deadline' = [deadline EXCEPT ![t] = 0]
  /\ UNCHANGED <<env, prog, item, stamp, wake, hist>>

\* Mutant of process_check: the test of line 122 is inverted.
process_check_never(t) ==
  /\ pc[t] = "process_check"
  /\ pc' = [pc EXCEPT ![t] = IF q[t[1]] = <<>> THEN "send_get" ELSE "return"]
  /\ records' = [records EXCEPT ![t] = <<>>]
  /\ deadline' = [deadline EXCEPT ![t] = 0]
  /\ UNCHANGED <<env, prog, item, stamp, wake, hist>>

\* line 122: if not self._q.empty(); _send_records_from_q starts with
\* records = [] (line 144)
process_check(t) ==
  /\ pc[t] = "process_check"
  /\ pc' = [pc EXCEPT ![t] = IF q[t[1]] # <<>> THEN "send_get" ELSE "return"]
  /\ records' = [records EXCEPT ![t] = <<>>]
  /\ deadline' = [deadline EXCEPT ![t] = 0]
  /\ UNCHANGED <<env, prog, item, stamp, wake, hist>>

\* lines 148-153: records.append(self._q.get_nowait()) until Queue.Empty
send_get(t) ==
  /\ pc[t] = "send_get"
  /\ IF q[t[1]] # <<>>
     THEN /\ records' = [records EXCEPT ![t] = Append(@, Head(q[t[1]]))]
          /\ q' = [q EXCEPT ![t[1]] = Tail(@)]
          /\ UNCHANGED pc
     ELSE /\ pc' = [pc EXCEPT ![t] = "send"]
          /\ UNCHANGED <<records, q>>
  /\ UNCHANGED <<env, Q, LOCK, LAST_SEND_TIME, active, poll_duration_max,
                 deadline, item, stamp, wake, hist>>

\* Whether an earlier dispatch at instant `prev` lies at least d seconds
\* before now.
Apart(prev, d) == prev = NEG_INF \/ time - prev >= d

\* Whether an earlier dispatch at instant `prev` lies at least
\* _SEND_INTERVAL - _POLL_INTERVAL before now.
Spaced(prev) == Apart(prev, SPACING)

\* The message of lines 159-169, which lists the records in list order; with
\* it, how it is spaced from the instance's earlier dispatches, and from the
\* earlier dispatches of the workers of all instances (by _SEND_INTERVAL), and
\* whether quit() raised after sendmail() had accepted it (not yet known).
Message(t) ==
  [by |-> t, recs |-> records[t],
   spaced |-> Spaced(prev_send[t[1]]),
   worker_spaced |-> Spaced(prev_worker_send[t[1]]),
   class_spaced |-> \A h \in handlers : Apart(prev_worker_send[h], SEND_INTERVAL),
   raised |-> FALSE]

\* lines 154-177: with records collected, the finally block builds the
\* message, connects, and smtp.sendmail() accepts it: the batch is dispatched,
\* and the thread goes on to smtp.quit(), the local list still in its frame.
\* With no record collected the finally block does nothing and
\* _send_records_from_q returns.
send_ok(t) ==
  /\ pc[t] = "send"
  /\ IF records[t] # <<>>
     THEN /\ batches' = Append(batches, Message(t))
          /\ prev_send' = [prev_send EXCEPT ![t[1]] = time]
          /\ prev_worker_send' =
               IF t[2] = "worker"
               THEN [prev_worker_send EXCEPT ![t[1]] = time]
               ELSE prev_worker_send
          /\ pc' = [pc EXCEPT ![t] = "quit"]
     ELSE /\ pc' = [pc EXCEPT ![t] = "stamp"]
          /\ UNCHANGED <<batches, prev_send, prev_worker_send>>
  /\ UNCHANGED <<env, prog, locals, emitted, lost, at_close, before_close,
                 close_cut>>

\* line 178: smtp.quit() returns, and with it _send_records_from_q.
send_quit(t) ==
  /\ pc[t] = "quit"
  /\ records' = [records EXCEPT ![t] = <<>>]
  /\ pc' = [pc EXCEPT ![t] = "stamp"]
  /\ UNCHANGED <<env, prog, deadline, item, stamp, wake, hist>>

\* The batch thread t dispatched last.
LastBatch(t) ==
  CHOOSE i \in DOMAIN batches :
    batches[i].by = t /\ \A j \in DOMAIN batches : batches[j].by = t => j <= i

\* The two ways a call of the transport raises (lines 170-178).  Before
\* sendmail() has accepted the message (connect, starttls, login, sendmail):
\* the batch is gone.
Refused(t) ==
  /\ pc[t] = "send"
  /\ lost' = lost \cup Range(records[t])
  /\ UNCHANGED batches

\* After it (quit() on line 178): the batch was dispatched, at the instant
\* sendmail() accepted it.
QuitRaised(t) ==
  /\ pc[t] = "quit"
  /\ batches' = [batches EXCEPT ![LastBatch(t)].raised = TRUE]
  /\ UNCHANGED lost

\* Mutant of send_fail: the records of the failed batch are put back into _Q
\* before the exception leaves.
send_fail_requeue(t) ==
  /\ records[t] # <<>>
  /\ Refused(t) \/ QuitRaised(t)
  /\ Q' = Q \o records[t]
  /\ records' = [records EXCEPT ![t] = <<>>]
  /\ pc' = [pc EXCEPT ![t] = IF t[2] = "worker" THEN "dead" ELSE "raised"]
  /\ LOCK' = IF t[2] = "worker" THEN NoThread ELSE LOCK
  /\ UNCHANGED <<env, LAST_SEND_TIME, q, active, poll_duration_max,
                 deadline, item, stamp, wake, emitted, prev_send,
                 prev_worker_send, at_close, before_close, close_cut>>

\* Mutant of send_fail: the exception ends the worker with the lock still
\* held (acquire() without a with block or try/finally).
send_fail_keeps_lock(t) ==
  /\ records[t] # <<>>
  /\ Refused(t) \/ QuitRaised(t)
  /\ records' = [records EXCEPT ![t] = <<>>]
  /\ pc' = [pc EXCEPT ![t] = IF t[2] = "worker" THEN "dead" ELSE "raised"]
  /\ UNCHANGED <<env, prog, deadline, item, stamp, wake, emitted, prev_send,
                 prev_worker_send, at_close, before_close, close_cut>>

\* lines 170-178, a call of the transport raises: the exception leaves
\* _send_records_from_q and _process_recordset (line 125 catches only
\* KeyboardInterrupt and SystemExit); in run it leaves the with block, which
\* releases the lock, and ends the thread; in close it reaches the caller.
\* _LAST_SEND_TIME is not written, whether or not the message was accepted.
send_fail(t) ==
  /\ records[t] # <<>>
  /\ Refused(t) \/ QuitRaised(t)
  /\ records' = [records EXCEPT ![t] = <<>>]
  /\ pc' = [pc EXCEPT ![t] = IF t[2] = "worker" THEN "dead" ELSE "raised"]
  /\ LOCK' = IF t[2] = "worker" THEN NoThread ELSE LOCK
  /\ UNCHANGED <<env, Q, LAST_SEND_TIME, q, active, poll_duration_max,
                 deadline, item, stamp, wake, emitted, prev_send,
                 prev_worker_send, at_close, before_close, close_cut>>

\* line 124, right-hand side: time.time()
process_stamp(t) ==
  /\ pc[t] = "stamp"
  /\ stamp' = [stamp EXCEPT ![t] = time]
  /\ pc' = [pc EXCEPT ![t] = "store"]
  /\ UNCHANGED <<env, prog, deadline, item, records, wake, hist>>

\* line 124, the assignment to self.__class__._LAST_SEND_TIME
process_store(t) ==
  /\ pc[t] = "store"
  /\ LAST_SEND_TIME' = stamp[t]
  /\ stamp' = [stamp EXCEPT ![t] = 0]
  /\ pc' = [pc EXCEPT ![t] = "return"]
  /\ UNCHANGED <<env, Q, LOCK, q, active, poll_duration_max, deadline,
                 item, records, wake, hist>>

\* ----------------------------------------------------------------- state
\* The records in the two queues at one instant.  No line of the code reads
\* both sizes at once.
Queued(h) == Len(Q) + Len(q[h])

\* Mutant of state: the instance queue is counted by emptying it.
state_draining(h) ==
  /\ h \in handlers
  /\ q' = [q EXCEPT ![h] = <<>>]
  /\ UNCHANGED <<env, Q, LOCK, LAST_SEND_TIME, active, poll_duration_max,
                 pc, locals, hist>>

\* line 47, left operand: self._Q.qsize() is read, under the mutex of _Q only.
state_qsize_Q(h) ==
  /\ h \in handlers
  /\ seen[h] = NotReading
  /\ seen' = [seen EXCEPT ![h] = Q]
  /\ UNCHANGED <<handlers, closes, dropped, seconds, prog, pc, locals, hist>>

\* The pending count that a call of state() returns when it ends now: the
\* size of _Q it read earlier plus the size of _q read now (line 47).
Reported(h) == Len(seen[h]) + Len(q[h])

\* line 47, right operand: self._q.qsize() is read and state() returns.
state_return(h) ==
  /\ h \in handlers
  /\ seen[h] # NotReading
  /\ seen' = [seen EXCEPT ![h] = NotReading]
  /\ UNCHANGED <<handlers, closes, dropped, seconds, prog, pc, locals, hist>>

\* state (lines 23-55) of a constructed instance: it assigns to nothing and
\* takes no lock; threads run between its two reads of line 47.
state(h) ==
  \/ state_qsize_Q(h)
  \/ state_return(h)

\* ------------------------------------------------------------------ Next
Cycle(t) ==
  \/ process_enter(t)
  \/ drain_poll(t)
  \/ drain_put(t)
  \/ drain_empty(t)
  \/ process_check(t)
  \/ send_get(t)
  \/ send_ok(t)
  \/ send_quit(t)
  \/ send_fail(t)
  \/ process_stamp(t)
  \/ process_store(t)

Worker(h) ==
  \/ run_loop(h)
  \/ run_acquire(h)
  \/ run_check(h)
  \/ run_poll(h)
  \/ run_wake(h)
  \/ Cycle(W(h))

\* A thread that closes the instance once.
Closer(h) ==
  \/ close_first(h)
  \/ close_return(h)
  \/ Cycle(C(h))

Next ==
  \/ \E p \in Producers : emit(p)
  \/ \E h \in handlers : Worker(h)
  \/ \E h \in handlers : Closer(h)
  \/ Tick

Spec == Init /\ [][Next]_vars

\* One handler with one producer thread, its worker and a thread closing it
\* once.
FairNext ==
  \/ emit(1)
  \/ Worker(1)
  \/ Closer(1)
  \/ Tick

\* The threads are scheduled by the interpreter and by the operating system: a
\* thread that can take a step eventually takes it, and time passes.  Nothing
\* obliges a producer to log.
FairSpec ==
  /\ Init /\ [][FairNext]_vars
  /\ WF_vars(Tick)
  /\ WF_vars(Worker(1))
  /\ WF_vars(Closer(1))

\* ------------------------------------------------------------ interruption
\* The steps of one execution of _process_recordset (lines 117-126).
CyclePcs == {"process_enter", "drain_test", "drain_put", "drain_empty",
             "drain_sleep", "process_check", "send_get", "send", "quit",
             "stamp", "store"}
InCycle(t) == pc[t] \in CyclePcs

\* Records a thread holds outside both queues: popped from _Q and not yet put
\* into _q, or collected in `records` and not yet accepted by sendmail().
Held(t) ==
  ({item[t]} \ {NoRec}) \cup (IF pc[t] = "quit" THEN {} ELSE Range(records[t]))

\* KeyboardInterrupt or SystemExit is raised in thread t inside a cycle.
\* Before the try block of line 120 is set up nothing catches it: it leaves
\* _process_recordset, and close() raises or the worker ends, releasing the
\* lock on its way out of the with block.  In the loop of lines 148-150 it is
\* caught on line 152 and the finally block sends what `records` holds so far;
\* when it arrives on line 149 after get_nowait() has removed a record from
\* _q and before append, that record is gone.  Anywhere else it leaves
\* _move_recordset_from_Q_to_q or _send_records_from_q, is caught on line 125
\* and _process_recordset returns: line 124 is skipped, and a record the
\* thread held in a local (popped from _Q and not yet put, or collected in
\* `records` and not yet accepted by sendmail()) is gone with the frame; when
\* it arrives after sendmail() (in quit(), line 178) the batch was dispatched.
interrupt(t) ==
  /\ InCycle(t)
  /\ \/ /\ pc[t] = "process_enter"
        /\ pc' = [pc EXCEPT ![t] = IF t[2] = "worker" THEN "dead" ELSE "raised"]
        /\ LOCK' = IF t[2] = "worker" THEN NoThread ELSE LOCK
        /\ UNCHANGED <<q, dropped, item, records, stamp, deadline, batches,
                       prev_send, prev_worker_send>>
     \/ /\ pc[t] = "send_get"
        /\ pc' = [pc EXCEPT ![t] = "send"]
        /\ \E popped \in BOOLEAN :
             IF popped /\ q[t[1]] # <<>>
             THEN /\ q' = [q EXCEPT ![t[1]] = Tail(@)]
                  /\ dropped' = dropped \cup {Head(q[t[1]])}
             ELSE UNCHANGED <<q, dropped>>
        /\ UNCHANGED <<LOCK, item, records, stamp, deadline, batches,
                       prev_send, prev_worker_send>>
     \/ /\ pc[t] = "quit"
        /\ pc' = [pc EXCEPT ![t] = "return"]
        /\ records' = [records EXCEPT ![t] = <<>>]
        /\ UNCHANGED <<LOCK, q, dropped, item, stamp, deadline, batches,
                       prev_send, prev_worker_send>>
     \/ /\ pc[t] \notin {"process_enter", "send_get", "quit"}
        /\ pc' = [pc EXCEPT ![t] = "return"]
        /\ dropped' = dropped \cup Held(t)
        /\ item' = [item EXCEPT ![t] = NoRec]
        /\ records' = [records EXCEPT ![t] = <<>>]
        /\ stamp' = [stamp EXCEPT ![t] = 0]
        /\ deadline' = [deadline EXCEPT ![t] = 0]
        /\ UNCHANGED <<LOCK, q, batches, prev_send, prev_worker_send>>
  /\ UNCHANGED <<handlers, closes, seen, seconds, Q, LAST_SEND_TIME, active,
                 poll_duration_max, wake, emitted, lost, at_close, before_close,
                 close_cut>>

\* One handler, one producer, and a closing thread (the main thread, where
\* the interpreter raises KeyboardInterrupt) that can be interrupted.
IntNext ==
  \/ FairNext
  \/ interrupt(C(1))

IntSpec == Init /\ [][IntNext]_vars

\* ------------------------------------------------------- a caller of state()
\* One handler, one producer, and a thread that calls state().
StateNext ==
  \/ FairNext
  \/ state(1)

StateSpec == Init /\ [][StateNext]_vars

\* ------------------------------------------------------- close() called again
\* One handler, one producer, and a closing thread that calls close() again
\* after an earlier call has returned or raised.
AgainNext ==
  \/ FairNext
  \/ close_again(1)

AgainSpec == Init /\ [][AgainNext]_vars

\* ------------------------------------------------------------ two instances
\* Two instances of the class, constructed in one process: they share _Q,
\* _LOCK and _LAST_SEND_TIME, each has its own _q, _active and worker thread.
\* One producer logs, and the first instance is closed at most once.
TwoInit == InitWith({1, 2})

TwoNext ==
  \/ emit(1)
  \/ Worker(1)
  \/ Worker(2)
  \/ Closer(1)
  \/ Tick

TwoSpec == TwoInit /\ [][TwoNext]_vars

\* ---------------------------------------------------------------- claims
H1 == CHOOSE h \in HandlerIds : \A g \in HandlerIds : h <= g   \* the first instance
Dispatched == UNION {Range(batches[i].recs) : i \in DOMAIN batches}
\* The places <<i, k>> (batch, position) at which record r was dispatched.
Places(r) == {ik \in {<<i, k>> : i \in DOMAIN batches, k \in 1..MaxEmit} :
                ik[2] <= Len(batches[ik[1]].recs) /\ batches[ik[1]].recs[ik[2]] = r}

\* C1: no enqueued record is included in more than one dispatched batch, and
\* no record appears twice inside one batch.
C1_NoRecordDispatchedTwice ==
  \A r \in Emitted : Cardinality(Places(r)) <= 1

\* C1 witness: both records were dispatched, one by the worker and one by
\* close(), after the two threads ran their cycles concurrently.
C1_Witness ==
  /\ Len(batches) = 2
  /\ batches[1].by # batches[2].by
  /\ Cardinality(Dispatched) = 2

\* C2 as claimed: when close() returns normally, every record that was in _Q
\* when close() was invoked has been handed to the transport.
C2_CloseFlushesIntake ==
  pc[C(H1)] = "closed" => at_close[H1] \subseteq Dispatched

\* C2 as amended: when close() returns normally, every record that was in _Q
\* when close() was invoked has been dispatched, or was taken over by the
\* background worker's concurrent cycle (it is in _q, held by the worker, or
\* in a batch of the worker's whose send raised), or is still in _Q, and this
\* only when the deadline ended close()'s drain.
C2_CloseAccountsForIntake ==
  pc[C(H1)] = "closed" =>
    \A r \in at_close[H1] :
      \/ r \in Dispatched
      \/ r \in Range(q[H1]) \cup Held(W(H1)) \cup lost
      \/ r \in Range(Q) /\ close_cut[H1]

\* C2 witness: close() has returned with one record of _Q dispatched and
\* another left in _Q by the deadline.
C2_Witness ==
  /\ pc[C(H1)] = "closed"
  /\ close_cut[H1]
  /\ \E r1 \in at_close[H1], r2 \in at_close[H1] :
       r1 \in Dispatched /\ r2 \in Range(Q)

\* A call of the transport has raised: the batch was dropped, or it was
\* accepted and quit() raised.
TransportRaised == lost # {} \/ \E i \in DOMAIN batches : batches[i].raised
\* The records of the batches in whose send the transport raised.
FailedRecs ==
  lost \cup UNION {Range(batches[i].recs) : i \in {j \in DOMAIN batches : batches[j].raised}}

\* No cycle is running or will run unless close() is called again: close() is
\* over and the worker has left run.
Settled == pc[C(H1)] \in {"closed", "raised"} /\ pc[W(H1)] \in {"done", "dead"}

\* C3 as claimed, as its final result: with no transport failure, once close()
\* has returned and the worker has ended, every record enqueued before close()
\* was invoked has been dispatched.
C3_NoRecordDropped ==
  (Settled /\ ~TransportRaised /\ pc[C(H1)] = "closed" /\ pc[W(H1)] = "done")
    => before_close[H1] \subseteq Dispatched

\* What becomes of a record r: it was dispatched, or a transport failure
\* occurred, or it is left in _Q: close()'s drain was ended by its deadline
\* and both close() and the worker are over (the record waits for another
\* call of close()).
C3_Resolved(r) ==
  \/ r \in Dispatched
  \/ TransportRaised
  \/ r \in Range(Q) /\ close_cut[H1] /\ Settled

\* C3 (amended): once close() is invoked, eventually every record enqueued
\* before it is dispatched, or a send has failed, or the record is left in _Q
\* with close() cut by its deadline and both threads over.
C3_DispatchedOrLeftInIntake ==
  (pc[C(H1)] # "idle") ~> (\A r \in before_close[H1] : C3_Resolved(r))

\* C3 witness: close() and the worker are over without a transport failure:
\* one record enqueued before close() was dispatched, another stays in _Q.
C3_Witness ==
  /\ Settled /\ ~TransportRaised
  /\ \E r1 \in before_close[H1], r2 \in before_close[H1] :
       r1 \in Dispatched /\ r2 \in Range(Q)

\* C4 as claimed: records of one producer are dispatched in the order they
\* were enqueued: the earlier one in an earlier batch, or earlier in the same
\* batch.
C4_PerProducerFIFO ==
  \A r1 \in Emitted, r2 \in Emitted :
    (r1[1] = r2[1] /\ r1[2] < r2[2]) =>
      \A a \in Places(r1), b \in Places(r2) :
        a[1] < b[1] \/ (a[1] = b[1] /\ a[2] < b[2])

\* C5 as claimed: every dispatch of the instance, by the worker or by close(),
\* comes at least _SEND_INTERVAL - _POLL_INTERVAL after its previous dispatch.
C5_DispatchesSpaced ==
  \A i \in DOMAIN batches : batches[i].spaced

\* C5 as amended: every dispatch by the background worker comes at least
\* _SEND_INTERVAL - _POLL_INTERVAL after the worker's previous dispatch.
C5_WorkerDispatchesSpaced ==
  \A i \in DOMAIN batches :
    batches[i].by[2] = "worker" => batches[i].worker_spaced

\* C5 witness: the worker has dispatched two batches.
C5_Witness ==
  /\ Len(batches) = 2
  /\ batches[1].by = W(H1) /\ batches[2].by = W(H1)

\* C6: when the transport fails in a batch of the worker's, before sendmail()
\* has accepted the batch or after it (in quit()), the worker thread ends for
\* good, releases the lock and dispatches nothing more, and the records of a
\* failed batch are in neither queue and held by no thread; those of a batch
\* the transport did not accept are never dispatched.
WorkerBatches == {i \in DOMAIN batches : batches[i].by = W(H1)}
C6_FailureEndsWorker ==
  /\ [](FailedRecs \cap (Range(Q) \cup Range(q[H1]) \cup Held(W(H1))
                         \cup Held(C(H1))) = {})
  /\ [](lost \cap Dispatched = {})
  /\ [][(pc[W(H1)] \in {"send", "quit"} /\ records[W(H1)] # <<>>
           /\ pc'[W(H1)] \notin {"send", "quit", "stamp"})
          => (pc'[W(H1)] = "dead" /\ LOCK' = NoThread
              /\ Range(records[W(H1)]) \subseteq FailedRecs'
              /\ Q' = Q /\ q' = q /\ Held(W(H1))' = {})]_vars
  /\ [][(FailedRecs' # FailedRecs /\ pc[W(H1)] \in {"send", "quit"}
           /\ pc'[W(H1)] # pc[W(H1)])
          => pc'[W(H1)] = "dead"]_vars
  /\ [](\A i \in WorkerBatches : batches[i].raised => pc[W(H1)] = "dead")
  /\ [][pc[W(H1)] = "dead"
          => (pc'[W(H1)] = "dead" /\ WorkerBatches' = WorkerBatches)]_vars

\* C6 witness: the worker has ended on a transport failure that dropped its
\* batch, while a record is still waiting in _Q and close() has returned.
C6_Witness ==
  /\ pc[W(H1)] = "dead" /\ lost # {}
  /\ batches = <<>>
  /\ Q # <<>> /\ pc[C(H1)] = "closed"

\* C7 as claimed: the pending count that state() reports is at least the
\* number of records enqueued and not yet dispatched.
Undispatched == Emitted \ Dispatched
C7_PendingCoversUndispatched ==
  seen[H1] # NotReading => Reported(H1) >= Cardinality(Undispatched)

\* The records state() counted in _Q that have left _Q since.
Moved(h) == Range(seen[h]) \ Range(Q)

\* C7 as amended: at every instant the records in the two queues fall short
\* of the records enqueued and not yet dispatched by exactly the records a
\* running cycle holds outside both queues and the records of batches the
\* transport did not accept; the count state() reports adds a size of _Q read
\* earlier to the size of _q, and exceeds the number of undispatched records
\* by at most the records that left _Q between its two reads.
C7_PendingWithinMovedOfUndispatched ==
  /\ Queued(H1) + Cardinality(Held(W(H1))) + Cardinality(Held(C(H1)))
       + Cardinality(lost) = Cardinality(Undispatched)
  /\ seen[H1] # NotReading =>
       Reported(H1) <= Cardinality(Undispatched) + Cardinality(Moved(H1))

\* C7 witness: a record that state() counted in _Q was moved to _q before
\* state() read the size of _q: the count is above the number of
\* undispatched records.
C7_Witness ==
  /\ seen[H1] # NotReading
  /\ Range(seen[H1]) \cap Range(q[H1]) # {}
  /\ Reported(H1) > Cardinality(Undispatched)

\* C8: if emit() is never called, no transport send has occurred and
\* _LAST_SEND_TIME still is float('-inf').
C8_NoEmitNoSend ==
  EmitCount = 0 => (batches = <<>> /\ lost = {} /\ LAST_SEND_TIME = NEG_INF)

\* C8 witness: without any emit(), the worker has run a cycle and ended, and
\* close() has returned.
C8_Witness ==
  EmitCount = 0 /\ pc[W(H1)] = "done" /\ pc[C(H1)] = "closed"

\* C9: emit() can act in every state; it waits neither for the scheduler lock
\* nor for close().
C9_EmitNeverBlocks ==
  \A p \in Producers : EmitCount < MaxEmit => ENABLED emit(p)

\* C9 witness: the worker holds the lock in the middle of a drain or a send,
\* close() is running its drain, a record enqueued after close() was invoked
\* is in _Q, and emit() can act again.
C9_Witness ==
  /\ LOCK = W(H1)
  /\ pc[W(H1)] \in {"drain_test", "drain_put", "drain_empty", "drain_sleep",
                    "send_get", "send"}
  /\ pc[C(H1)] \in {"drain_test", "drain_put", "drain_empty", "drain_sleep"}
  /\ \E r \in Range(Q) : r \notin before_close[H1]
  /\ ENABLED emit(2)

\* C10: state() changes nothing and takes no lock: it leaves both queues, the
\* timestamp, the active flag and the intervals as they are, and it can run
\* in every state, also while a cycle holds the lock.
C10_StateReadsOnly ==
  /\ [][\A h \in handlers :
         state(h) => UNCHANGED <<prog, pc, locals, handlers, closes>>]_vars
  /\ [](\A h \in handlers : ENABLED state(h))

\* C10 witness: state() has read the size of _Q and can go on to the size of
\* _q while the worker holds the lock in a send and records are pending.
C10_Witness ==
  /\ LOCK = W(H1) /\ pc[W(H1)] = "send" /\ records[W(H1)] # <<>>
  /\ seen[H1] # NotReading /\ Reported(H1) > 0
  /\ ENABLED state_return(H1)

\* C11 as claimed: at most one drain-and-send cycle of an instance is in
\* progress at any time, and every thread inside a cycle, the one close() runs
\* included, holds the scheduler lock.
C11_CyclesUnderLock ==
  \A h \in handlers :
    /\ ~(InCycle(W(h)) /\ InCycle(C(h)))
    /\ \A t \in {W(h), C(h)} : InCycle(t) => LOCK = t

\* A thread takes the step that follows Queue.Empty (lines 136-139).
EmptyPopStep(t) == pc[t] = "drain_empty" /\ pc'[t] # "drain_empty"

\* C12 as claimed: when the pop finds _Q empty, the drain stops at once if _q
\* holds a record, and sleeps to retry if _q is empty.
C12_EmptyPopStopsWhenStaged ==
  [][\A t \in Threads :
       EmptyPopStep(t) =>
         IF q[t[1]] # <<>> THEN pc'[t] = "process_check"
                           ELSE pc'[t] = "drain_sleep"]_vars

\* C12 as amended: when the pop finds _Q empty, the drain stops at once if _q
\* is empty, and if _q holds a record it sleeps 0.1 s and polls again: after
\* the sleep it pops again while the deadline has not passed, and stops once
\* it has.
C12_EmptyPopPollsOnWhenStaged ==
  [][\A t \in Threads :
       /\ EmptyPopStep(t) =>
            IF q[t[1]] = <<>>
            THEN pc'[t] = "process_check"
            ELSE pc'[t] = "drain_sleep" /\ wake'[t] = time + DRAIN_SLEEP
       /\ (pc[t] = "drain_sleep" /\ pc'[t] # "drain_sleep") =>
            IF time < deadline[t]
            THEN pc'[t] \in {"drain_put", "drain_empty"}
            ELSE pc'[t] = "process_check"]_vars

\* C12 witness: the worker found _Q empty with a record staged in _q and
\* sleeps; a record has arrived in _Q since, and the deadline has not passed:
\* the next poll adds it to the batch.
C12_Witness ==
  /\ pc[W(H1)] = "drain_sleep"
  /\ q[H1] # <<>> /\ Q # <<>>
  /\ time < deadline[W(H1)]

\* C13 as claimed: a thread goes on from _send_records_from_q to the write of
\* _LAST_SEND_TIME (line 124) only when it has just handed a non-empty batch
\* to the transport: it comes from a quit() that returned.
C13_StampOnlyAfterSend ==
  [][\A t \in Threads :
       (pc[t] # "stamp" /\ pc'[t] = "stamp")
         => (pc[t] = "quit" /\ records[t] # <<>>)]_vars

\* C14 as claimed: every write of _LAST_SEND_TIME (the step that leaves line
\* 124) stores a value greater than or equal to the value it replaces.
C14_TimestampNeverDecreases ==
  [][\A t \in Threads :
       (pc[t] = "store" /\ pc'[t] # "store")
         => LAST_SEND_TIME' >= LAST_SEND_TIME]_vars

\* The worker thread has left run(), by the loop test or by an exception.
WorkerEnded(h) == pc[W(h)] \in {"done", "dead"}

\* C15: once close() has set the handler inactive, the worker never passes
\* the loop test again; under fair scheduling it ends, and a worker that has
\* ended does not hold the lock.
C15_WorkerEndsAfterClose ==
  /\ (pc[C(H1)] # "idle") ~> (WorkerEnded(H1) /\ LOCK # W(H1))
  /\ [][~active[H1] =>
          ~(pc[W(H1)] # "acquire" /\ pc'[W(H1)] = "acquire")]_vars
  /\ [](WorkerEnded(H1) => LOCK # W(H1))

\* C15 witness: close() was invoked while the worker was in a cycle; the
\* worker finished that cycle with a dispatch, slept, saw the flag and left
\* its loop, with no transport failure.
C15_Witness ==
  /\ pc[C(H1)] # "idle" /\ pc[W(H1)] = "done" /\ ~TransportRaised
  /\ \E i \in DOMAIN batches :
       /\ batches[i].by = W(H1)
       /\ \E r \in Range(batches[i].recs) : r \notin before_close[H1]

\* C16 as claimed: an interruption raised inside a cycle does not leave
\* _process_recordset; no record that had been moved to _q is lost (a record
\* in _q, or taken out of _q by the cycle, stays there or is dispatched); and
\* the cycle goes on towards the write of the timestamp only with a batch to
\* send.
C16_InterruptIsGraceful ==
  [][\A t \in Threads :
       interrupt(t) =>
         /\ pc'[t] \in {"return", "send"}
         /\ (Range(q[t[1]]) \cup Range(records[t]))
              \subseteq (Range(q'[t[1]]) \cup Range(records'[t]) \cup Dispatched')
         /\ pc'[t] = "send" => records'[t] # <<>>]_vars

\* Where a worker is inside the with block of line 107.
LockedPcs == CyclePcs \cup {"check", "return"}

\* C17: the lock is held only by a worker that is inside its with block, never
\* by a thread that has stopped; a worker killed by a transport failure,
\* before or after sendmail() accepted its batch, held the lock and releases
\* it on the way out, and the worker of another instance waiting for the lock
\* can then take it.
C17_LockReleasedByDeadWorker ==
  /\ [](LOCK # NoThread => (LOCK[2] = "worker" /\ pc[LOCK] \in LockedPcs))
  /\ [][\A h \in handlers :
          (pc[W(h)] # "dead" /\ pc'[W(h)] = "dead")
            => (pc[W(h)] \in {"send", "quit"} /\ LOCK = W(h)
                /\ LOCK' = NoThread)]_vars
  /\ [](\A h \in handlers, g \in handlers :
          (pc[W(h)] = "dead" /\ pc[W(g)] = "acquire"
             /\ \A k \in handlers : pc[W(k)] \notin LockedPcs)
            => ENABLED run_acquire(g))

\* C17 witness: the worker of instance 1 was killed by a transport failure
\* inside its cycle, and the worker of instance 2 has taken the lock since and
\* is sending a batch.
C17_Witness ==
  /\ pc[W(1)] = "dead" /\ lost # {}
  /\ LOCK = W(2) /\ pc[W(2)] = "send" /\ records[W(2)] # <<>>

\* C18 as claimed: with two instances, every dispatch of a worker comes at
\* least the send interval after the previous dispatch of a worker of either
\* instance, and the workers of two instances are never inside their cycles
\* at the same time.
C18_RateLimitAcrossInstances ==
  /\ \A i \in DOMAIN batches :
       batches[i].by[2] = "worker" => batches[i].class_spaced
  /\ \A h \in handlers, g \in handlers :
       (h # g /\ pc[W(h)] \in LockedPcs) => pc[W(g)] \notin LockedPcs

\* close() has returned and the worker has left its loop.
Over == pc[C(H1)] = "closed" /\ WorkerEnded(H1)

\* C19 as claimed: with one instance, once close() has returned and the
\* worker has left its loop, no thread is or gets inside a cycle again,
\* nothing more is handed to the transport, _Q only grows (a record in it
\* stays in it), and emit() can still enqueue.
C19_NoSendAfterShutdown ==
  /\ [](Over => (~InCycle(W(H1)) /\ ~InCycle(C(H1))))
  /\ [][Over => /\ Over'
                 /\ batches' = batches /\ lost' = lost
                 /\ Len(Q') >= Len(Q) /\ SubSeq(Q', 1, Len(Q)) = Q
                 /\ q' = q]_vars
  /\ [](\A p \in Producers : (Over /\ EmitCount < MaxEmit) => ENABLED emit(p))

\* C19 as amended: once close() has returned and the worker has left its
\* loop, no thread is inside a cycle; as long as close() is not called again
\* it stays so, nothing is handed to the transport and _Q only grows; only a
\* further call of close() ends this, by starting another cycle; and emit()
\* can still enqueue.
C19_NoSendUntilClosedAgain ==
  /\ [](Over => (~InCycle(W(H1)) /\ ~InCycle(C(H1))))
  /\ [][(Over /\ closes' = closes)
          => /\ Over'
             /\ batches' = batches /\ lost' = lost
             /\ Len(Q') >= Len(Q) /\ SubSeq(Q', 1, Len(Q)) = Q
             /\ q' = q]_vars
  /\ [][(Over /\ closes' # closes)
          => /\ closes'[H1] = closes[H1] + 1
             /\ InCycle(C(H1))' /\ WorkerEnded(H1)'
             /\ batches' = batches /\ Q' = Q]_vars
  /\ [](\A p \in Producers : (Over /\ EmitCount < MaxEmit) => ENABLED emit(p))

\* C19 witness: close() has returned a second time with the worker gone: the
\* record that was left in _Q when it was called again has been dispatched by
\* it, and a record enqueued since is in _Q.
C19_Witness ==
  /\ Over /\ closes[H1] = 2
  /\ \E i \in DOMAIN batches :
       /\ batches[i].by = C(H1)
       /\ Range(batches[i].recs) \cap at_close[H1] # {}
  /\ \E r \in Range(Q) : r \notin before_close[H1]

====
